---- MODULE Spec2Model ----
(***************************************************************************)
(* Model of convert-time-table.js: the wide-to-long reshape transposeData  *)
(* and the read / transform / write driver processCsv.                     *)
(*                                                                         *)
(* Strings (cell values, ticket names, column labels) are sequences of     *)
(* characters.                                                             *)
(***************************************************************************)
EXTENDS Integers, Sequences, FiniteSets

\* Largest number of rows the reader delivers in one run.
MaxRows == 2


(***************************************************************************)
(* Characters.  A character is a string: a printable ASCII character and   *)
(* the escapes \t \n \r \f stand for themselves, any other character is    *)
(* written by its code unit, "U+000B".                                     *)
(***************************************************************************)
DigitChars == <<"0", "1", "2", "3", "4", "5", "6", "7", "8", "9">>

IsDigit(c) == \E n \in 1..10 : DigitChars[n] = c

DigitVal(c) == (CHOOSE n \in 1..10 : DigitChars[n] = c) - 1

\* StrWhiteSpaceChar: WhiteSpace (TAB, VT, FF, SP, NBSP, ZWNBSP and the
\* space separators) and LineTerminator (LF, CR, LS, PS).
IsWhiteSpace(c) ==
    c \in {"\t", "U+000B", "\f", " ", "U+00A0", "U+FEFF",
           "U+1680", "U+2000", "U+2001", "U+2002", "U+2003", "U+2004",
           "U+2005", "U+2006", "U+2007", "U+2008", "U+2009", "U+200A",
           "U+202F", "U+205F", "U+3000",
           "\n", "\r", "U+2028", "U+2029"}

(***************************************************************************)
(* Natural numbers of any size, as sequences of decimal digits, most       *)
(* significant first, without leading zeros (zero is the empty sequence).  *)
(***************************************************************************)
\* The smallest index in lo..hi at which d holds a non-zero digit, hi + 1
\* if there is none.
RECURSIVE FirstNonZero(_, _, _)
FirstNonZero(d, lo, hi) ==
    IF lo > hi THEN lo
    ELSE IF lo = hi THEN (IF d[lo] # 0 THEN lo ELSE hi + 1)
    ELSE LET mid == (lo + hi) \div 2
             left == FirstNonZero(d, lo, mid)
         IN  IF left <= mid THEN left ELSE FirstNonZero(d, mid + 1, hi)

\* The digits of d from the first non-zero one on.
StripZeros(d) == SubSeq(d, FirstNonZero(d, 1, Len(d)), Len(d))

Zeros(n) == Tail(<<0>> \o [k \in 1..n |-> 0])

\* -1, 0 or 1 as the digits lo..hi of a are less than, equal to or greater
\* than those of b.
RECURSIVE CompareRange(_, _, _, _)
CompareRange(a, b, lo, hi) ==
    IF lo > hi THEN 0
    ELSE IF lo = hi
      THEN (IF a[lo] < b[lo] THEN -1 ELSE IF a[lo] > b[lo] THEN 1 ELSE 0)
    ELSE LET mid == (lo + hi) \div 2
             left == CompareRange(a, b, lo, mid)
         IN  IF left # 0 THEN left ELSE CompareRange(a, b, mid + 1, hi)

BigCompare(a, b) ==
    IF Len(a) < Len(b) THEN -1
    ELSE IF Len(a) > Len(b) THEN 1
    ELSE CompareRange(a, b, 1, Len(a))

\* 2 * a: the carry into a digit comes from the next digit alone.
BigDouble(a) ==
    LET carry(n) == IF n < Len(a) /\ a[n + 1] >= 5 THEN 1 ELSE 0
        low == [n \in 1..Len(a) |-> ((2 * a[n]) % 10) + carry(n)]
    IN  IF a # <<>> /\ a[1] >= 5 THEN <<1>> \o low ELSE Tail(<<0>> \o low)

\* 2^k * a, by halving k.  The test on the first half has the half computed
\* before the second half starts from it, which keeps the evaluation shallow.
RECURSIVE DoubleTimes(_, _)
DoubleTimes(a, k) ==
    IF k <= 0 THEN a
    ELSE IF k = 1 THEN BigDouble(a)
    ELSE LET half == DoubleTimes(a, k \div 2)
         IN  IF Len(half) >= 0 THEN DoubleTimes(half, k - (k \div 2)) ELSE half

\* a - b, for a >= b: a digit borrows iff the digits below it are less in a
\* than in b.
BigSub(a, b) ==
    LET bb == Zeros(Len(a) - Len(b)) \o b
        borrow(n) == IF CompareRange(a, bb, n + 1, Len(a)) < 0 THEN 1 ELSE 0
    IN  StripZeros([n \in 1..Len(a) |-> (a[n] - bb[n] - borrow(n) + 10) % 10])

\* a + b: a digit takes a carry iff some digit below it overflows and every
\* digit in between sums to 9.
BigAdd(a, b) ==
    LET len == (IF Len(a) > Len(b) THEN Len(a) ELSE Len(b)) + 1
        aa == Zeros(len - Len(a)) \o a
        bb == Zeros(len - Len(b)) \o b
        carry(n) ==
            IF \E k \in (n + 1)..len :
                   /\ aa[k] + bb[k] >= 10
                   /\ \A j \in (n + 1)..(k - 1) : aa[j] + bb[j] = 9
              THEN 1 ELSE 0
    IN  StripZeros([n \in 1..len |-> (aa[n] + bb[n] + carry(n)) % 10])

\* The digits of a natural number.
RECURSIVE DigitsOf(_)
DigitsOf(n) == IF n = 0 THEN <<>> ELSE DigitsOf(n \div 10) \o <<n % 10>>

(***************************************************************************)
(* JavaScript numbers: NaN, +/-Infinity, or a finite double                *)
(* (-1)^neg * m * 2^q, m an odd natural number written as its bits, most   *)
(* significant first (zero is m = <<>>, q = 0).                            *)
(***************************************************************************)
NaN == [k |-> "nan", neg |-> FALSE, m |-> <<>>, q |-> 0]

Infinite(neg) == [k |-> "inf", neg |-> neg, m |-> <<>>, q |-> 0]

Finite(neg, m, q) == [k |-> "fin", neg |-> neg, m |-> m, q |-> q]

\* The bits of b up to its last 1.
RECURSIVE StripTrailingZeros(_)
StripTrailingZeros(b) ==
    IF b = <<>> THEN b
    ELSE IF b[Len(b)] = 0 THEN StripTrailingZeros(SubSeq(b, 1, Len(b) - 1))
    ELSE b

\* b + 1 on a sequence of bits; a carry out of the first bit lengthens it.
RECURSIVE Increment(_)
Increment(b) ==
    IF b = <<>> THEN <<1>>
    ELSE IF b[Len(b)] = 0 THEN SubSeq(b, 1, Len(b) - 1) \o <<1>>
    ELSE Increment(SubSeq(b, 1, Len(b) - 1)) \o <<0>>

\* Scale num / den into [1/2, 1): the result <<num, den, e>> has
\* num / den * 2^e equal to the value given and den / 2 <= num < den.
RECURSIVE Scale(_, _, _)
Scale(num, den, e) ==
    IF BigCompare(num, den) >= 0 THEN Scale(num, BigDouble(den), e + 1)
    ELSE IF BigCompare(BigDouble(num), den) < 0
      THEN Scale(BigDouble(num), den, e - 1)
    ELSE <<num, den, e>>

\* The first p bits of the binary expansion of num / den < 1, and what is
\* left: <<bits, rest>> with num / den = 0.bits + rest / den * 2^-Len(bits).
\* A zero rest ends the expansion early, after its last 1.  The bits are
\* found half by half, which keeps the evaluation shallow.
RECURSIVE Expand(_, _, _)
Expand(num, den, p) ==
    IF p <= 0 \/ num = <<>> THEN <<<<>>, num>>
    ELSE IF p = 1
      THEN LET twice == BigDouble(num)
           IN  IF BigCompare(twice, den) >= 0
                 THEN <<<<1>>, BigSub(twice, den)>>
                 ELSE <<<<0>>, twice>>
    ELSE LET first == Expand(num, den, p \div 2)
             second == Expand(first[2], den, p - (p \div 2))
         IN  IF first[2] = <<>> THEN first
             ELSE <<first[1] \o second[1], second[2]>>

\* Bits of the significand of a double, the exponent of its largest power
\* of two (2^1024 is out of range) and of its smallest normal number
\* (0.1b * 2^-1021 = 2^-1022).
SignificandBits == 53

MaxBinaryExponent == 1024

MinNormalExponent == -1021

\* Decimal orders of magnitude beyond which every number is Infinity, or
\* below which every number rounds to zero.
MaxDecimalOrder == 308

MinDecimalOrder == -324

\* The double nearest to digits * 10^exp (ties to the even significand).
\* A number of decimal order n lies between 2^(3.321928 n) and
\* 2^(3.321929 (n + 1)): the scaling starts one below that power of two.
ToDouble(neg, digits, exp) ==
    LET d == StripZeros(digits)
        order == Len(d) + exp - 1
        num == IF exp >= 0 THEN d \o Zeros(exp) ELSE d
        den == IF exp >= 0 THEN <<1>> ELSE <<1>> \o Zeros(0 - exp)
        near == ((order * 3321928) \div 1000000) - 1
        s == IF near >= 0 THEN Scale(num, DoubleTimes(den, near), near)
             ELSE Scale(DoubleTimes(num, 0 - near), den, near)
        e == s[3]
        p == IF e >= MinNormalExponent THEN SignificandBits
             ELSE SignificandBits - (MinNormalExponent - e)
        x == Expand(s[1], s[2], p)
        half == BigCompare(BigDouble(x[2]), s[2])
        odd == x[1] # <<>> /\ x[1][Len(x[1])] = 1
        up == half > 0 \/ (half = 0 /\ odd)
        bits == IF up THEN Increment(x[1]) ELSE x[1]
        m == StripTrailingZeros(bits)
    IN  IF d = <<>> THEN Finite(neg, <<>>, 0)
        ELSE IF order > MaxDecimalOrder THEN Infinite(neg)
        ELSE IF order < MinDecimalOrder THEN Finite(neg, <<>>, 0)
        ELSE IF p < 0 THEN Finite(neg, <<>>, 0)
        ELSE IF Len(bits) + e - Len(x[1]) > MaxBinaryExponent THEN Infinite(neg)
        ELSE IF m = <<>> THEN Finite(neg, <<>>, 0)
        ELSE Finite(neg, m, e - Len(x[1]) + (Len(bits) - Len(m)))

(***************************************************************************)
(* The values row[key] can yield besides a string: undefined, a built-in   *)
(* function (written by its name) and the object Object.prototype.         *)
(***************************************************************************)
Undefined == <<"undefined">>

Function(name) == <<"function">> \o name

ObjectPrototype == <<"object">>

\* The methods of Object.prototype, which every row inherits.
PrototypeMethods ==
    { <<"h", "a", "s", "O", "w", "n", "P", "r", "o", "p", "e", "r", "t", "y">>,
      <<"i", "s", "P", "r", "o", "t", "o", "t", "y", "p", "e", "O", "f">>,
      <<"p", "r", "o", "p", "e", "r", "t", "y", "I", "s", "E", "n", "u", "m", "e", "r", "a", "b", "l", "e">>,
      <<"t", "o", "L", "o", "c", "a", "l", "e", "S", "t", "r", "i", "n", "g">>,
      <<"t", "o", "S", "t", "r", "i", "n", "g">>,
      <<"v", "a", "l", "u", "e", "O", "f">>,
      <<"_", "_", "d", "e", "f", "i", "n", "e", "G", "e", "t", "t", "e", "r", "_", "_">>,
      <<"_", "_", "d", "e", "f", "i", "n", "e", "S", "e", "t", "t", "e", "r", "_", "_">>,
      <<"_", "_", "l", "o", "o", "k", "u", "p", "G", "e", "t", "t", "e", "r", "_", "_">>,
      <<"_", "_", "l", "o", "o", "k", "u", "p", "S", "e", "t", "t", "e", "r", "_", "_">> }

\* ToString as parseFloat applies it to its argument.
ToString(v) ==
    IF v = Undefined THEN <<"u", "n", "d", "e", "f", "i", "n", "e", "d">>
    ELSE IF v = ObjectPrototype
      THEN <<"[", "o", "b", "j", "e", "c", "t", " ", "O", "b", "j", "e", "c", "t", "]">>
    ELSE IF v # <<>> /\ v[1] = "function"
      THEN <<"f", "u", "n", "c", "t", "i", "o", "n", " ">>
             \o Tail(v)
             \o <<"(", ")", " ", "{", " ", "[", "n", "a", "t", "i", "v", "e", " ", "c", "o", "d", "e", "]", " ", "}">>
    ELSE v

\* First index at or after p that holds no white space (Len(s)+1 if none).
RECURSIVE SkipWhiteSpace(_, _)
SkipWhiteSpace(s, p) ==
    IF p <= Len(s) /\ IsWhiteSpace(s[p]) THEN SkipWhiteSpace(s, p + 1) ELSE p

\* First index at or after p that holds no decimal digit.
RECURSIVE DigitsEnd(_, _)
DigitsEnd(s, p) ==
    IF p <= Len(s) /\ IsDigit(s[p]) THEN DigitsEnd(s, p + 1) ELSE p

\* The values of the decimal digits s[p..q-1].
DigitValues(s, p, q) ==
    Tail(<<0>> \o [n \in 1..(q - p) |-> DigitVal(s[p + n - 1])])

\* The number a short sequence of digit values denotes.
RECURSIVE SmallValue(_)
SmallValue(d) ==
    IF d = <<>> THEN 0
    ELSE SmallValue(SubSeq(d, 1, Len(d) - 1)) * 10 + d[Len(d)]

\* TRUE iff the characters of w occur in s starting at index p.
HasPrefixAt(s, p, w) ==
    /\ p + Len(w) - 1 <= Len(s)
    /\ \A n \in 1..Len(w) : s[p + n - 1] = w[n]

\* The double a literal denotes: digits (fracDigits of them after the point)
\* times 10^eDigits or 10^-eDigits.  The exponent may have any number of
\* digits, so the decimal order of the literal, up - down - 1, is found on
\* numbers of any size.
DecimalValue(neg, digits, fracDigits, eNeg, eDigits) ==
    LET up == IF eNeg THEN DigitsOf(Len(digits))
              ELSE BigAdd(DigitsOf(Len(digits)), eDigits)
        down == IF eNeg THEN BigAdd(DigitsOf(fracDigits), eDigits)
                ELSE DigitsOf(fracDigits)
        side == BigCompare(up, down)
        gap == IF side >= 0 THEN BigSub(up, down) ELSE BigSub(down, up)
        tooLarge ==
            side > 0 /\ BigCompare(gap, DigitsOf(MaxDecimalOrder + 1)) > 0
        tooSmall ==
            side < 0 /\ BigCompare(gap, DigitsOf((0 - MinDecimalOrder) - 1)) > 0
        exp == (IF side >= 0 THEN SmallValue(gap) ELSE 0 - SmallValue(gap))
                 - Len(digits)
    IN  IF digits = <<>> THEN Finite(neg, <<>>, 0)
        ELSE IF tooLarge THEN Infinite(neg)
        ELSE IF tooSmall THEN Finite(neg, <<>>, 0)
        ELSE ToDouble(neg, digits, exp)

(***************************************************************************)
(* parseFloat(v): skip leading white space, then read the longest prefix   *)
(* that is a StrDecimalLiteral: [+-] ( Infinity | digits [. digits] [exp]  *)
(* | . digits [exp] ), exp = (e|E) [+-] digits.  No such prefix: NaN.      *)
(* Anything after the prefix is ignored.                                   *)
(***************************************************************************)
parseFloat(v) ==
    LET s == ToString(v)
        p0 == SkipWhiteSpace(s, 1)
        hasSign == p0 <= Len(s) /\ s[p0] \in {"+", "-"}
        neg == hasSign /\ s[p0] = "-"
        p1 == IF hasSign THEN p0 + 1 ELSE p0
        intEnd == DigitsEnd(s, p1)
        hasDot == intEnd <= Len(s) /\ s[intEnd] = "."
        fracEnd == IF hasDot THEN DigitsEnd(s, intEnd + 1) ELSE intEnd
        intDigits == intEnd - p1
        fracDigits == IF hasDot THEN fracEnd - (intEnd + 1) ELSE 0
        mantEnd == IF hasDot THEN fracEnd ELSE intEnd
        hasE == mantEnd <= Len(s) /\ s[mantEnd] \in {"e", "E"}
        eSign == hasE /\ mantEnd + 1 <= Len(s) /\ s[mantEnd + 1] \in {"+", "-"}
        eStart == IF eSign THEN mantEnd + 2 ELSE mantEnd + 1
        eEnd == IF hasE THEN DigitsEnd(s, eStart) ELSE eStart
        hasExp == hasE /\ eEnd > eStart
        eNeg == eSign /\ s[mantEnd + 1] = "-"
        eDigits ==
            IF hasExp THEN StripZeros(DigitValues(s, eStart, eEnd)) ELSE <<>>
        digits ==
            StripZeros(DigitValues(s, p1, intEnd)
                \o (IF hasDot THEN DigitValues(s, intEnd + 1, fracEnd) ELSE <<>>))
    IN  IF HasPrefixAt(s, p1, <<"I", "n", "f", "i", "n", "i", "t", "y">>)
          THEN Infinite(neg)
        ELSE IF intDigits + fracDigits = 0 THEN NaN
        ELSE DecimalValue(neg, digits, fracDigits, eNeg, eDigits)

isNaN(x) == x.k = "nan"

\* x > 0 on JavaScript numbers (NaN compares false with everything).
GreaterThanZero(x) ==
    \/ x.k = "inf" /\ ~x.neg
    \/ x.k = "fin" /\ ~x.neg /\ x.m # <<>>

(***************************************************************************)
(* Row objects.  A row is the sequence of its <<key, value>> pairs in      *)
(* insertion order (the column order in which the reader builds it); keys  *)
(* are distinct.  Object.keys lists the keys that are array indices first, *)
(* in ascending numeric order, and the other keys in insertion order.      *)
(***************************************************************************)
Keys(row) == {row[n][1] : n \in 1..Len(row)}

\* row[key]: the row's own value, else what Object.prototype holds under
\* the key (its constructor is the function Object, its __proto__ accessor
\* yields the row's prototype), else undefined.
Get(row, key) ==
    IF key \in Keys(row)
      THEN row[CHOOSE n \in 1..Len(row) : row[n][1] = key][2]
    ELSE IF key \in PrototypeMethods THEN Function(key)
    ELSE IF key = <<"c", "o", "n", "s", "t", "r", "u", "c", "t", "o", "r">>
      THEN Function(<<"O", "b", "j", "e", "c", "t">>)
    ELSE IF key = <<"_", "_", "p", "r", "o", "t", "o", "_", "_">> THEN ObjectPrototype
    ELSE Undefined

\* The largest array index, 2^32 - 2, as digits.
MaxArrayIndex == <<4, 2, 9, 4, 9, 6, 7, 2, 9, 4>>

\* The number a key of digits denotes, as digits.
ArrayIndex(key) == DigitValues(key, 1, Len(key) + 1)

\* A key is an array index iff it is the canonical decimal text of an
\* integer from 0 to 2^32 - 2: digits only, no leading zero but in "0".
IsArrayIndex(key) ==
    /\ key # <<>>
    /\ \A n \in 1..Len(key) : IsDigit(key[n])
    /\ (key[1] = "0" => Len(key) = 1)
    /\ BigCompare(ArrayIndex(key), MaxArrayIndex) <= 0

\* The array-index keys of a set, in ascending numeric order.
RECURSIVE Ascending(_)
Ascending(ks) ==
    IF ks = {} THEN <<>>
    ELSE LET m == CHOOSE a \in ks :
                      \A b \in ks : BigCompare(ArrayIndex(a), ArrayIndex(b)) <= 0
         IN  <<m>> \o Ascending(ks \ {m})

InsertionOrder(row) == [n \in 1..Len(row) |-> row[n][1]]

IsOtherKey(key) == ~IsArrayIndex(key)

ObjectKeys(row) ==
    Ascending({key \in Keys(row) : IsArrayIndex(key)})
      \o SelectSeq(InsertionOrder(row), IsOtherKey)

(***************************************************************************)
(* transposeData, the pieces of its loop body.                             *)
(***************************************************************************)
ticketHeader == <<"T", "i", "c", "k", "e", "t">>

IsDateHeader(header) == header # ticketHeader

\* DateHeaders without the filter: "Ticket" would count as a date column.
DateHeaders_Unfiltered(allHeaders) == allHeaders

\* allHeaders.filter(header => header !== ticketHeader)
DateHeaders(allHeaders) == SelectSeq(allHeaders, IsDateHeader)

\* Keep with >= in place of >: a zero cell would be kept.
Keep_NonNegative(parsedTimeSpent) ==
    /\ ~isNaN(parsedTimeSpent)
    /\ (~parsedTimeSpent.neg \/ (parsedTimeSpent.k = "fin" /\ parsedTimeSpent.m = <<>>))

\* !isNaN(parsedTimeSpent) && parsedTimeSpent > 0
Keep(parsedTimeSpent) ==
    ~isNaN(parsedTimeSpent) /\ GreaterThanZero(parsedTimeSpent)

\* The object literal pushed for one cell; TimeSpent is its 'Time Spent'.
Record(date, ticketName, parsedTimeSpent) ==
    [Date |-> date, Ticket |-> ticketName, TimeSpent |-> parsedTimeSpent]

\* Push as unshift: the result would come out in reverse.
Push_Front(seq, x) == <<x>> \o seq

\* Push that skips an element already present: equal records would merge.
Push_Unique(seq, x) ==
    IF \E n \in 1..Len(seq) : seq[n] = x THEN seq ELSE Append(seq, x)

\* transposed.push(x)
Push(seq, x) == Append(seq, x)

(***************************************************************************)
(* The reader.  It takes the first line of the file as the header and      *)
(* turns every later line into a row object: the cell at index n (from 0)  *)
(* goes under the header at index n, a cell beyond the header under        *)
(* "_<index>"; a short line gives a row without the trailing keys.         *)
(***************************************************************************)
\* The decimal text of a natural number.
RECURSIVE Decimal(_)
Decimal(n) ==
    IF n < 10 THEN <<DigitChars[n + 1]>>
    ELSE Decimal(n \div 10) \o <<DigitChars[(n % 10) + 1]>>

\* `_${index}`
ExtraLabel(index) == <<"_">> \o Decimal(index)

writeRow(headerLine, cells) ==
    [n \in 1..Len(cells) |->
        <<IF n <= Len(headerLine) THEN headerLine[n] ELSE ExtraLabel(n - 1),
          cells[n]>>]

(***************************************************************************)
(* The inputs: header lines, and data lines made of cell texts.            *)
(***************************************************************************)
Date1 == <<"2", "0", "2", "5", "-", "0", "5", "-", "0", "1">>

Date2 == <<"2", "0", "2", "5", "-", "0", "5", "-", "0", "2">>

\* Labels made of digits: array indices, a label with a leading zero, the
\* largest array index and the number after it.
Col_0 == <<"0">>

Col_7 == <<"7">>

Col_07 == <<"0", "7">>

Col_10 == <<"1", "0">>

Col_Max == <<"4", "2", "9", "4", "9", "6", "7", "2", "9", "4">>

Col_Over == <<"4", "2", "9", "4", "9", "6", "7", "2", "9", "5">>

\* Labels that name members of Object.prototype.
Col_constructor == <<"c", "o", "n", "s", "t", "r", "u", "c", "t", "o", "r">>

Col_toString == <<"t", "o", "S", "t", "r", "i", "n", "g">>

Str_Empty == <<>>

Str_0 == <<"0">>

Str_Neg1 == <<"-", "1">>

Str_2 == <<"2">>

Str_2h == <<"2", "h">>

Str_abc == <<"a", "b", "c">>

Str_3p5 == <<"3", ".", "5">>

Str_Sp2 == <<"\f", "U+00A0", " ", "2">>

Str_Infinity == <<"I", "n", "f", "i", "n", "i", "t", "y">>

Str_1e999 == <<"1", "e", "9", "9", "9">>

Str_1em400 == <<"1", "e", "-", "4", "0", "0">>

Str_T1 == <<"T", "1">>

Str_T2 == <<"T", "2">>

Str_42 == <<"4", "2">>

CellTexts ==
    {Str_0, Str_Neg1, Str_2h, Str_abc, Str_Sp2, Str_Infinity, Str_1e999,
     Str_1em400}

MainHeader == <<ticketHeader, Date1, Date2>>

\* The ticket column first and date labels; the ticket column in the
\* middle; date labels that are array indices, in descending order; a
\* label with a leading zero before an array index; the largest array
\* index after the number that follows it; labels that rows inherit.
HeaderLines ==
    { MainHeader,
      <<Date2, ticketHeader, Date1>>,
      <<ticketHeader, Col_10, Col_7>>,
      <<ticketHeader, Col_07, Col_0>>,
      <<Col_Over, ticketHeader, Col_Max>>,
      <<ticketHeader, Col_constructor, Col_toString>> }

\* Lines with three cells, first cell T1: each cell text in the second
\* column, before a positive cell.
FullLines == {<<Str_T1, c, Str_2>> : c \in CellTexts}

\* An empty first cell, a line with a cell beyond the header.
OddLines ==
    { <<Str_Empty, Str_2, Str_Empty>>,
      <<Str_T2, Str_Empty, Str_2, Str_3p5>> }

\* Lines read under every header, a short line among them.
FewLines ==
    { <<Str_T2, Str_2, Str_3p5>>,
      <<Str_42, Str_Empty, Str_2>>,
      <<Str_2, Str_T2, Str_3p5>>,
      <<Str_T2, Str_2>> }

LinesOf(headerLine) ==
    IF headerLine = MainHeader
      THEN FullLines \cup OddLines \cup FewLines
      ELSE FewLines

\* The rows the reader can deliver under a header.
InputRows(headerLine) ==
    {writeRow(headerLine, cells) : cells \in LinesOf(headerLine)}

(***************************************************************************)
(* State.                                                                  *)
(*   pc           where the run is                                         *)
(*   headers      the header line of the input file                        *)
(*   records      the rows collected by the 'data' handler                 *)
(*   transposed, dateHeaders, i, j   the locals of transposeData (i, j:    *)
(*                positions of the two for-of loops)                       *)
(*   src          history: for each element of transposed, the row index   *)
(*                and date header it was pushed for                        *)
(*   derivations  history: how often the headers were derived              *)
(*   calls        history: the calls made (transposeData, writeRecords)    *)
(*   writeArg     the sequence handed to writeRecords                      *)
(*   written      the records in the output file                           *)
(*   errors       the messages console.error has reported                  *)
(*   exit         "running", or how the process ended                      *)
(***************************************************************************)
VARIABLES pc, headers, records, transposed, dateHeaders, i, j, src, derivations,
          calls, writeArg, written, errors, exit

vars == <<pc, headers, records, transposed, dateHeaders, i, j, src, derivations,
          calls, writeArg, written, errors, exit>>

transformVars == <<transposed, dateHeaders, i, j, src, derivations>>

outputVars == <<writeArg, written>>

Init ==
    /\ pc = "reading"
    /\ headers \in HeaderLines
    /\ records = <<>>
    /\ transposed = <<>>
    /\ dateHeaders = <<>>
    /\ i = 1
    /\ j = 1
    /\ src = <<>>
    /\ derivations = 0
    /\ calls = <<>>
    /\ writeArg = <<>>
    /\ written = <<>>
    /\ errors = {}
    /\ exit = "running"

\* .on('data', row => records.push(row))
OnData ==
    /\ pc = "reading"
    /\ Len(records) < MaxRows
    /\ \E row \in InputRows(headers) : records' = Append(records, row)
    /\ UNCHANGED <<headers, pc, transformVars, calls, outputVars, errors, exit>>

\* .on('end', ...): the handler starts and calls transposeData(records),
\* which creates its empty result.
OnEnd ==
    /\ pc = "reading"
    /\ pc' = "t_entry"
    /\ calls' = Append(calls, "transposeData")
    /\ transposed' = <<>>
    /\ src' = <<>>
    /\ UNCHANGED <<headers, records, dateHeaders, i, j, derivations, outputVars,
                   errors, exit>>

\* ReturnEmpty without the length check: Object.keys(data[0]) throws on the
\* missing first row and the run dies in the 'end' handler.
ReturnEmpty_Throws ==
    /\ pc = "t_entry"
    /\ Len(records) = 0
    /\ pc' = "crashed"
    /\ exit' = "uncaught exception"
    /\ UNCHANGED <<headers, records, transformVars, calls, outputVars, errors>>

\* if (data.length === 0) return transposed;
ReturnEmpty ==
    /\ pc = "t_entry"
    /\ Len(records) = 0
    /\ pc' = "t_returned"
    /\ UNCHANGED <<headers, records, transformVars, calls, outputVars, errors, exit>>

\* allHeaders = Object.keys(data[0]); dateHeaders = allHeaders.filter(...);
\* the outer loop starts.
DeriveHeaders ==
    /\ pc = "t_entry"
    /\ Len(records) # 0
    /\ dateHeaders' = DateHeaders(ObjectKeys(records[1]))
    /\ derivations' = derivations + 1
    /\ i' = 1
    /\ j' = 1
    /\ pc' = "t_loop"
    /\ UNCHANGED <<headers, records, transposed, src, calls, outputVars, errors, exit>>

\* One pass of the inner loop body, for row i and date header j.
Cell ==
    /\ pc = "t_loop"
    /\ i <= Len(records)
    /\ j <= Len(dateHeaders)
    /\ LET row == records[i]
           ticketName == Get(row, ticketHeader)
           date == dateHeaders[j]
           timeSpent == Get(row, date)
           parsedTimeSpent == parseFloat(timeSpent)
       IN  IF Keep(parsedTimeSpent)
             THEN /\ transposed' =
                       Push(transposed, Record(date, ticketName, parsedTimeSpent))
                  /\ src' = Push(src, <<i, date>>)
             ELSE UNCHANGED <<transposed, src>>
    /\ j' = j + 1
    /\ UNCHANGED <<headers, pc, records, dateHeaders, i, derivations, calls, outputVars,
                   errors, exit>>

\* NextRow that derives the date headers again from the row it moves to.
NextRow_Rederive ==
    /\ pc = "t_loop"
    /\ i <= Len(records)
    /\ j > Len(dateHeaders)
    /\ i' = i + 1
    /\ j' = 1
    /\ dateHeaders' =
           IF i + 1 <= Len(records)
             THEN DateHeaders(ObjectKeys(records[i + 1]))
             ELSE dateHeaders
    /\ UNCHANGED <<headers, pc, records, transposed, src, derivations,
                   calls, outputVars, errors, exit>>

\* The inner loop is exhausted: the outer loop moves to the next row.
NextRow ==
    /\ pc = "t_loop"
    /\ i <= Len(records)
    /\ j > Len(dateHeaders)
    /\ i' = i + 1
    /\ j' = 1
    /\ UNCHANGED <<headers, pc, records, transposed, dateHeaders, src, derivations,
                   calls, outputVars, errors, exit>>

\* The outer loop is exhausted: return transposed.
Return ==
    /\ pc = "t_loop"
    /\ i > Len(records)
    /\ pc' = "t_returned"
    /\ UNCHANGED <<headers, records, transformVars, calls, outputVars, errors, exit>>

\* WriteRecords that does not wait for the transform to return.
WriteRecords_Early ==
    /\ pc \in {"t_loop", "t_returned"}
    /\ writeArg' = transposed
    /\ calls' = Append(calls, "writeRecords")
    /\ pc' = "writing"
    /\ UNCHANGED <<headers, records, transformVars, written, errors, exit>>

\* The 'end' handler resumes after the await: csvWriter.writeRecords(...).
WriteRecords ==
    /\ pc = "t_returned"
    /\ writeArg' = transposed
    /\ calls' = Append(calls, "writeRecords")
    /\ pc' = "writing"
    /\ UNCHANGED <<headers, records, transformVars, written, errors, exit>>

\* The write promise fulfils: .then(...)
WriteOk ==
    /\ pc = "writing"
    /\ written' = writeArg
    /\ pc' = "done"
    /\ UNCHANGED <<headers, records, transformVars, calls, writeArg, errors, exit>>

\* The write promise rejects: .catch(err => console.error(...)).  Any prefix
\* of the records may have reached the file.
WriteFail ==
    /\ pc = "writing"
    /\ \E n \in 0..Len(writeArg) : written' = SubSeq(writeArg, 1, n)
    /\ errors' = errors \cup {"Error writing output CSV:"}
    /\ pc' = "write_failed"
    /\ UNCHANGED <<headers, records, transformVars, calls, writeArg, exit>>

\* The parser stream emits 'error': the handler registered on it logs, and
\* does nothing else.  What follows is the stream's: one destroyed with the
\* error delivers nothing further, neither 'data' nor 'end'; one that only
\* emitted the event goes on reading.
ParserError ==
    /\ pc = "reading"
    /\ errors' = errors \cup {"Error reading input CSV:"}
    /\ pc' \in {"reading", "read_failed"}
    /\ UNCHANGED <<headers, records, transformVars, calls, outputVars, exit>>

\* The file stream emits 'error' (missing file, read failure).  The 'error'
\* handler is registered on the value pipe() returns, the parser, so the
\* file stream has none: the event is thrown as an uncaught exception.
SourceError ==
    /\ pc = "reading"
    /\ pc' = "crashed"
    /\ exit' = "uncaught exception"
    /\ UNCHANGED <<headers, records, transformVars, calls, outputVars, errors>>

\* Nothing is left to run: the process ends.  No handler sets an exit code
\* or rethrows, so the status is that of a successful run.
ProcessExit ==
    /\ pc \in {"done", "write_failed", "read_failed"}
    /\ exit = "running"
    /\ exit' = "status 0"
    /\ UNCHANGED <<headers, pc, records, transformVars, calls, outputVars, errors>>

Next ==
    \/ OnData
    \/ OnEnd
    \/ ReturnEmpty
    \/ DeriveHeaders
    \/ Cell
    \/ NextRow
    \/ Return
    \/ WriteRecords
    \/ WriteOk
    \/ WriteFail
    \/ ParserError
    \/ SourceError
    \/ ProcessExit

Spec == Init /\ [][Next]_vars

(***************************************************************************)
(* Vocabulary of the properties.                                           *)
(***************************************************************************)
\* transposeData has returned.
TransformReturned == pc \in {"t_returned", "writing", "done", "write_failed"}

\* A number that is not NaN and is strictly greater than zero.
Positive(x) == x.k # "nan" /\ ~x.neg /\ (x.k = "fin" => x.m # <<>>)

\* The date columns: the first row's keys other than "Ticket".
FirstRowDates ==
    IF records = <<>> THEN {} ELSE Keys(records[1]) \ {ticketHeader}

\* The output holds a record made for row r, column d.
HasRecord(r, d) ==
    \E p \in 1..Len(src) :
        /\ src[p] = <<r, d>>
        /\ p <= Len(transposed)
        /\ transposed[p].Date = d

\* Position of a date column in the first row's key order.
KeyPosition(d) ==
    CHOOSE n \in 1..Len(ObjectKeys(records[1])) : ObjectKeys(records[1])[n] = d

\* C1 (as amended): once transposeData has returned, for every row and every
\* date column derived from the first row's keys, the output holds a record
\* for that (row, column) if and only if parseFloat of the row's value there
\* is not NaN and is greater than 0; a cell under a key the first row lacks
\* produces no record.
C1_FilteringOnDateColumns ==
    TransformReturned =>
        \A r \in 1..Len(records) :
            /\ \A d \in FirstRowDates :
                   HasRecord(r, d) <=> Positive(parseFloat(Get(records[r], d)))
            /\ \A d \in Keys(records[r]) \ Keys(records[1]) : ~HasRecord(r, d)

\* C1 as stated: for every row and every cell of it other than the Ticket
\* cell, a record exists if and only if the cell parses to a value > 0.
C1_FilteringEveryCell ==
    TransformReturned =>
        \A r \in 1..Len(records) :
            \A d \in Keys(records[r]) \ {ticketHeader} :
                HasRecord(r, d) <=> Positive(parseFloat(Get(records[r], d)))

\* C1 witness: two rows were transposed; a "2h" cell gave a record, a zero,
\* negative, non-numeric or empty cell gave none, and neither did a positive
\* cell under a key the first row lacks.
C1_Witness ==
    /\ TransformReturned
    /\ Len(records) = 2
    /\ \E d \in Keys(records[2]) \ Keys(records[1]) :
           Positive(parseFloat(Get(records[2], d))) /\ ~HasRecord(2, d)
    /\ \E r \in 1..2 : \E d \in FirstRowDates :
           Get(records[r], d) = Str_2h /\ HasRecord(r, d)
    /\ \E r \in 1..2 : \E d \in FirstRowDates :
           Get(records[r], d) \in {Str_Neg1, Str_0, Str_abc, Str_Empty}
             /\ ~HasRecord(r, d)

\* C2: the records are in row order and, within a row, in the order of the
\* date columns in the first row's key order.
C2_OutputOrder ==
    /\ Len(src) = Len(transposed)
    /\ \A p \in 1..Len(src) : transposed[p].Date = src[p][2]
    /\ \A p, q \in 1..Len(src) :
           p < q =>
               \/ src[p][1] < src[q][1]
               \/ /\ src[p][1] = src[q][1]
                  /\ KeyPosition(src[p][2]) < KeyPosition(src[q][2])

\* C2 witness: the output holds two records of one row and records of two
\* different rows, and the first row carries array-index labels.
C2_Witness ==
    /\ TransformReturned
    /\ \E p, q \in 1..Len(src) : p < q /\ src[p][1] = src[q][1]
    /\ \E p, q \in 1..Len(src) : p < q /\ src[p][1] < src[q][1]
    /\ Col_10 \in Keys(records[1])

\* C3: every record carries the date label it was made for, the row's
\* Ticket value verbatim and the parsed value of the cell; its Date is
\* never "Ticket".
C3_RecordFields ==
    /\ Len(src) = Len(transposed)
    /\ \A p \in 1..Len(transposed) :
           LET r == src[p][1]
               d == src[p][2]
           IN  /\ transposed[p].Date = d
               /\ transposed[p].Date # ticketHeader
               /\ transposed[p].Ticket = Get(records[r], ticketHeader)
               /\ transposed[p].TimeSpent = parseFloat(Get(records[r], d))

\* C3 witness: a record with the empty ticket name, and a record whose row
\* has a numeric ticket name.
C3_Witness ==
    /\ TransformReturned
    /\ \E p \in 1..Len(transposed) : transposed[p].Ticket = Str_Empty
    /\ \E p \in 1..Len(transposed) :
           /\ transposed[p].Ticket = Str_42
           /\ transposed[p].TimeSpent = Finite(FALSE, <<1>>, 1)

\* C4 as stated: every accumulated record has a finite, strictly positive
\* Time Spent.
C4_FinitePositive ==
    \A p \in 1..Len(transposed) :
        /\ transposed[p].TimeSpent.k = "fin"
        /\ ~transposed[p].TimeSpent.neg
        /\ transposed[p].TimeSpent.m # <<>>

\* C5: the number of records returned is the number of (row, date column)
\* pairs whose cell parses to a value > 0, each pair giving one record.
C5_RecordCount ==
    TransformReturned =>
        /\ Len(transposed) =
               Cardinality({c \in (1..Len(records)) \X FirstRowDates :
                               Positive(parseFloat(Get(records[c[1]], c[2])))})
        /\ \A p, q \in 1..Len(src) : p # q => src[p] # src[q]

\* C5 witness: two rows with the same ticket, date and value gave two equal
\* records.
C5_Witness ==
    /\ TransformReturned
    /\ \E p, q \in 1..Len(transposed) : p < q /\ transposed[p] = transposed[q]

\* C6: the date columns are the first row's keys minus "Ticket", derived
\* once and the same for every row: no record is made for a key the first
\* row lacks, nor for a key its own row lacks.
C6_HeadersFromFirstRow ==
    /\ derivations <= 1
    /\ derivations = 1 =>
           /\ {dateHeaders[n] : n \in 1..Len(dateHeaders)} = FirstRowDates
           /\ Len(dateHeaders) = Cardinality(FirstRowDates)
    /\ (pc = "t_loop" \/ (TransformReturned /\ records # <<>>)) => derivations = 1
    /\ \A p \in 1..Len(src) :
           /\ src[p][2] \in FirstRowDates
           /\ src[p][2] \in Keys(records[src[p][1]])

\* C6 witness: the first row carries a cell beyond the header, whose key
\* thereby is a date column; the second row is short and lacks two of the
\* first row's date keys; the transform made records and returned.
C6_Witness ==
    /\ TransformReturned
    /\ Len(records) = 2
    /\ <<"_", "3">> \in FirstRowDates
    /\ Cardinality(FirstRowDates \ Keys(records[2])) = 2
    /\ \E p \in 1..Len(src) : src[p][1] = 2

\* C7: when the reader ends without a row and without an error,
\* transposeData returns the empty sequence without deriving headers, the
\* run goes on to write zero records, and nothing is reported or thrown
\* unless the write itself fails.
C7_EmptyInput ==
    (records = <<>> /\ calls # <<>> /\ "Error reading input CSV:" \notin errors) =>
        /\ transposed = <<>>
        /\ derivations = 0
        /\ pc \in {"t_entry", "t_returned", "writing", "done", "write_failed"}
        /\ pc \in {"writing", "done", "write_failed"} =>
               calls = <<"transposeData", "writeRecords">> /\ writeArg = <<>>
        /\ pc # "write_failed" => errors = {}
        /\ pc = "done" => written = <<>> /\ exit # "uncaught exception"

\* C7 witness: a run without rows wrote its zero records and ended.
C7_Witness ==
    /\ records = <<>>
    /\ errors = {}
    /\ pc = "done"
    /\ calls = <<"transposeData", "writeRecords">>
    /\ exit = "status 0"

\* C8: rows are collected only before the transform is called; the
\* transform runs only after 'end'; the write is called only once the
\* transform has returned, with its complete result; the file changes only
\* during the write.
C8_PhasesSequential ==
    [][ /\ records' # records => pc = "reading" /\ calls = <<>>
        /\ calls' # calls =>
               \/ pc = "reading" /\ calls' = <<"transposeData">>
               \/ /\ pc = "t_returned"
                  /\ calls' = <<"transposeData", "writeRecords">>
                  /\ writeArg' = transposed
                  /\ (records = <<>> \/ i > Len(records))
        /\ transposed' # transposed => pc = "t_loop"
        /\ written' # written => pc = "writing"
      ]_vars

\* C8 witness: a run over two rows went through all three phases.
C8_Witness ==
    /\ pc = "done"
    /\ Len(records) = 2
    /\ Len(written) >= 2

\* Reading the input has failed: the file stream or the parser stream has
\* emitted 'error'.
ReadFailed == pc = "crashed" \/ "Error reading input CSV:" \in errors

\* C9 as stated: after a read failure the error callback has reported it,
\* transposeData was never called and no write was started.
C9_ReadFailureHandled ==
    ReadFailed =>
        /\ "Error reading input CSV:" \in errors
        /\ calls = <<>>
        /\ writeArg = <<>>
        /\ written = <<>>

\* C10 as stated: after a read or write failure no further phase runs and
\* the process does not end as a successful run.
C10_FailureEndsFailed ==
    (ReadFailed \/ pc = "write_failed") => exit # "status 0"

====
